---- MODULE Spec2Model ----
(***************************************************************************)
(* action-autotag: a CI step that reads the version of pubspec.yaml and    *)
(* creates an annotated tag (tag object, then reference) on the host       *)
(* unless a tag of that name is already listed.                            *)
(*                                                                         *)
(* The program modelled is src/main.ts, the entry point of the action;     *)
(* the earlier JavaScript script of the same step is not modelled.  An     *)
(* invocation is one process; it suspends at each remote call (listTags,   *)
(* compareCommits, createTag, createRef), so one action is one remote call *)
(* together with the code that runs up to the next call.  The host is the  *)
(* environment: any call may be rejected, and a reference name is unique.  *)
(* Strings are sequences of one-character strings, so that concatenation,  *)
(* trimming and template substitution are computed and not assumed.        *)
(***************************************************************************)
EXTENDS Integers, Sequences, FiniteSets, TLC

\* ------------------------------------------------------------------------
\* Bounds of the model
\* ------------------------------------------------------------------------

\* the longest commit list a comparison returns
MaxCommits == 2

\* the most tags the repository holds before the first invocation
MaxInitialTags == 1

\* the invocations of the action that may run, one after another or interleaved
Invocations == {1, 2}

\* ------------------------------------------------------------------------
\* Strings
\* ------------------------------------------------------------------------

Empty == <<>>

StartsWith(s, p) == Len(s) >= Len(p) /\ SubSeq(s, 1, Len(p)) = p

Drop(s, n) == SubSeq(s, n + 1, Len(s))

\* ECMAScript white space, as far as the inputs of the model use it
WhiteSpace == {" ", "\n", "\t"}

RECURSIVE TrimStart(_)
TrimStart(s) ==
  IF s # Empty /\ s[1] \in WhiteSpace THEN TrimStart(Drop(s, 1)) ELSE s

RECURSIVE TrimEnd(_)
TrimEnd(s) ==
  IF s # Empty /\ s[Len(s)] \in WhiteSpace THEN TrimEnd(SubSeq(s, 1, Len(s) - 1)) ELSE s

\* String.prototype.trim
Trim(s) == TrimEnd(TrimStart(s))

\* a || b on strings: the empty string is falsy
OrElse(a, b) == IF a # Empty THEN a ELSE b

\* Array.prototype.join
RECURSIVE Join(_, _)
Join(parts, sep) ==
  IF parts = <<>> THEN Empty
  ELSE IF Len(parts) = 1 THEN parts[1]
  ELSE parts[1] \o sep \o Join(Drop(parts, 1), sep)

\* s.split('\n')[0]
RECURSIVE FirstLine(_)
FirstLine(s) ==
  IF s = Empty \/ s[1] = "\n" THEN Empty ELSE <<s[1]>> \o FirstLine(Drop(s, 1))

\* ------------------------------------------------------------------------
\* Literals of the program
\* ------------------------------------------------------------------------

TokMessage == <<"{", "{", "m", "e", "s", "s", "a", "g", "e", "}", "}">>

TokMessageHeadline ==
  <<"{", "{", "m", "e", "s", "s", "a", "g", "e", "H", "e", "a", "d", "l", "i", "n", "e", "}", "}">>

TokAuthor == <<"{", "{", "a", "u", "t", "h", "o", "r", "}", "}">>

TokSha == <<"{", "{", "s", "h", "a", "}", "}">>

DefaultStructure ==
  <<"*", "*">> \o TokMessage \o <<"*", "*", " ">> \o TokSha \o <<")", "\n">>

VersionWord == <<"V", "e", "r", "s", "i", "o", "n", " ">>

RefsTags == <<"r", "e", "f", "s", "/", "t", "a", "g", "s", "/">>

HeadRef == <<"m", "a", "i", "n">>

OutputKeys == {"tagname", "tagsha", "taguri", "tagmessage", "tagref"}

\* per_page of the list-tags request
PerPage == 100

\* ------------------------------------------------------------------------
\* Pure functions of the program
\* ------------------------------------------------------------------------

\* getEnvironmentVariables: the first missing variable throws
getEnvironmentVariables(e) ==
  LET token == OrElse(e.GITHUB_TOKEN, e.INPUT_GITHUB_TOKEN) IN
  IF token = Empty THEN
       [ok |-> FALSE, error |-> "GITHUB_TOKEN is required",
        token |-> Empty, workspace |-> Empty, sha |-> Empty]
  ELSE IF e.GITHUB_WORKSPACE = Empty THEN
       [ok |-> FALSE, error |-> "GITHUB_WORKSPACE is not set",
        token |-> Empty, workspace |-> Empty, sha |-> Empty]
  ELSE IF e.GITHUB_SHA = Empty THEN
       [ok |-> FALSE, error |-> "GITHUB_SHA is not set",
        token |-> Empty, workspace |-> Empty, sha |-> Empty]
  ELSE [ok |-> TRUE, error |-> "",
        token |-> token, workspace |-> e.GITHUB_WORKSPACE, sha |-> e.GITHUB_SHA]

\* core.getInput(name, {required: false}): the value, trimmed
getInput(raw, name) == Trim(raw[name])

\* getActionInputs
getActionInputs(raw) ==
  [packageRoot |-> OrElse(getInput(raw, "package_root"), <<".", "/">>),
   tagPrefix |-> OrElse(getInput(raw, "tag_prefix"), Empty),
   tagSuffix |-> OrElse(getInput(raw, "tag_suffix"), Empty),
   tagMessage |-> Trim(getInput(raw, "tag_message")),
   changelogStructure |-> OrElse(getInput(raw, "changelog_structure"), DefaultStructure)]

\* setActionOutputs, were it to leave out the defaults
setActionOutputs_NoDefaults(outputs) == outputs

\* setActionOutputs: the values given, the empty string for every other key
setActionOutputs(outputs) ==
  [k \in OutputKeys |-> IF k \in DOMAIN outputs THEN outputs[k] ELSE Empty]

\* core.setOutput for every key of vals; an output is <<>> until it is set
\* and <<value>> afterwards
setOutput(current, vals) ==
  [k \in DOMAIN current |-> IF k \in DOMAIN vals THEN <<vals[k]>> ELSE current[k]]

\* loadPubspec, were it to skip the check of the version field
loadPubspec_Unvalidated(file) ==
  IF file.kind = "absent" THEN
       [ok |-> FALSE, error |-> "pubspec.yaml does not exist", version |-> Empty]
  ELSE [ok |-> TRUE, error |-> "", version |-> file.version]

\* loadPubspec on the file at <workspace>/<packageRoot>/pubspec.yaml
loadPubspec(file) ==
  IF file.kind = "absent" THEN
       [ok |-> FALSE, error |-> "pubspec.yaml does not exist", version |-> Empty]
  ELSE IF file.kind = "unparsable" THEN
       [ok |-> FALSE, error |-> "YAMLException", version |-> Empty]
  ELSE IF file.kind \in {"scalar", "noVersion"} THEN
       [ok |-> FALSE, error |-> "Invalid pubspec.yaml: missing version field",
        version |-> Empty]
  ELSE IF file.kind = "nonString" \/ file.version = Empty THEN
       [ok |-> FALSE, error |-> "Invalid pubspec.yaml: version must be a non-empty string",
        version |-> Empty]
  ELSE [ok |-> TRUE, error |-> "", version |-> file.version]

\* tagExists, were it to skip the newest tag
tagExists_SkipsNewest(tags, name) == \E i \in 2..Len(tags) : tags[i].name = name

\* tagExists, were it to look at the newest tag only
tagExists_NewestOnly(tags, name) == Len(tags) > 0 /\ tags[1].name = name

\* tagExists
tagExists(tags, name) == \E i \in 1..Len(tags) : tags[i].name = name

\* the candidate tag name of createVersionTag
candidateName(given, v) == given.tagPrefix \o v \o given.tagSuffix

\* formatCommit: one left-to-right scan, the first alternative that matches
\* at a position is substituted and the substituted text is not rescanned
RECURSIVE formatCommit(_, _)
formatCommit(commit, structure) ==
  IF structure = Empty THEN Empty
  ELSE IF StartsWith(structure, TokMessage) THEN
       commit.commit.message \o formatCommit(commit, Drop(structure, Len(TokMessage)))
  ELSE IF StartsWith(structure, TokMessageHeadline) THEN
       FirstLine(commit.commit.message)
         \o formatCommit(commit, Drop(structure, Len(TokMessageHeadline)))
  ELSE IF StartsWith(structure, TokAuthor) THEN
       (IF commit.author = <<>> THEN Empty ELSE commit.author[1].login)
         \o formatCommit(commit, Drop(structure, Len(TokAuthor)))
  ELSE IF StartsWith(structure, TokSha) THEN
       commit.sha \o formatCommit(commit, Drop(structure, Len(TokSha)))
  ELSE <<structure[1]>> \o formatCommit(commit, Drop(structure, 1))

\* generateChangelog, once the comparison has returned
generateChangelog(commits, structure) ==
  Join([i \in 1..Len(commits) |-> formatCommit(commits[i], structure)], <<"\n">>)

\* the fallback message
defaultMessage(v) == VersionWord \o v

\* getTagMessage, were it to look at the tag list before the message given
getTagMessage_ListFirst(providedMessage, tags, v) ==
  IF Len(tags) > 0 THEN [decided |-> FALSE, message |-> Empty, base |-> tags[1].name]
  ELSE IF providedMessage # Empty THEN
       [decided |-> TRUE, message |-> providedMessage, base |-> Empty]
  ELSE [decided |-> TRUE, message |-> defaultMessage(v), base |-> Empty]

\* getTagMessage up to its remote call: the message when it is decided
\* without a comparison, or the base of the comparison to make
getTagMessage(providedMessage, tags, v) ==
  IF providedMessage # Empty THEN
       [decided |-> TRUE, message |-> providedMessage, base |-> Empty]
  ELSE IF Len(tags) = 0 THEN
       [decided |-> TRUE, message |-> defaultMessage(v), base |-> Empty]
  ELSE [decided |-> FALSE, message |-> Empty, base |-> tags[1].name]

\* getTagMessage, were it to return an empty changelog as it is
changelogMessage_NoFallback(response, structure, v) ==
  IF response.ok THEN generateChangelog(response.commits, structure) ELSE defaultMessage(v)

\* getTagMessage, were a failed comparison to leave the bare version
changelogMessage_BareVersion(response, structure, v) ==
  IF response.ok
    THEN OrElse(generateChangelog(response.commits, structure), defaultMessage(v))
    ELSE v

\* getTagMessage after the comparison: the changelog, or the fallback when
\* the changelog is empty or the comparison threw
changelogMessage(response, structure, v) ==
  IF response.ok
    THEN OrElse(generateChangelog(response.commits, structure), defaultMessage(v))
    ELSE defaultMessage(v)

\* ------------------------------------------------------------------------
\* Inputs of the model: environments, manifests, action inputs, commits
\* ------------------------------------------------------------------------

V100 == <<"1", ".", "0", ".", "0">>

V100Build7 == V100 \o <<"+", "7">>

EnvOk ==
  [GITHUB_TOKEN |-> <<"t", "k">>, INPUT_GITHUB_TOKEN |-> Empty,
   GITHUB_WORKSPACE |-> <<"/", "w">>, GITHUB_SHA |-> <<"c", "0">>]

\* the token passed as the input of the step and not in the environment
EnvInputToken == [EnvOk EXCEPT !.GITHUB_TOKEN = Empty, !.INPUT_GITHUB_TOKEN = <<"t", "k">>]

IncompleteEnvironments ==
  {[EnvOk EXCEPT !.GITHUB_TOKEN = Empty],
   [EnvOk EXCEPT !.GITHUB_WORKSPACE = Empty],
   [EnvOk EXCEPT !.GITHUB_SHA = Empty]}

Manifest(kind, v) == [kind |-> kind, version |-> v]

BadManifests ==
  {Manifest(k, Empty) :
      k \in {"absent", "unparsable", "scalar", "noVersion", "nonString", "string"}}

\* what one invocation finds: a version with or without a build number, a
\* manifest without a usable version, or an incomplete environment
Scenarios ==
  {[env |-> EnvOk, file |-> Manifest("string", V100)],
   [env |-> EnvInputToken, file |-> Manifest("string", V100Build7)]}
  \cup {[env |-> EnvOk, file |-> m] : m \in BadManifests}
  \cup {[env |-> e, file |-> Manifest("string", V100)] : e \in IncompleteEnvironments}

NoInputs ==
  [package_root |-> Empty, tag_prefix |-> Empty, tag_suffix |-> Empty,
   tag_message |-> Empty, changelog_structure |-> Empty]

\* the with: block of the workflow, shared by the invocations
InputCases ==
  {NoInputs,
   [NoInputs EXCEPT !.tag_prefix = <<"v">>, !.tag_suffix = <<"-", "b">>,
                    !.tag_message = <<" ", "h", "i", " ">>],
   [NoInputs EXCEPT !.tag_prefix = <<"v">>, !.tag_message = <<" ", "\n">>,
                    !.changelog_structure = TokMessageHeadline \o TokAuthor]}

CommitPool ==
  {[sha |-> <<"a", "1">>,
    commit |-> [message |-> <<"f", "i", "x", "\n", "\n", "d">>],
    author |-> <<[login |-> <<"b", "o">>]>>],
   [sha |-> <<"b", "2">>, commit |-> [message |-> Empty], author |-> <<>>]}

\* the commit lists a comparison may return
CommitLists == UNION {[1..n -> CommitPool] : n \in 0..MaxCommits}

TagPool == {[name |-> <<"v">> \o V100], [name |-> V100]}

\* the tag lists the repository may start with: no name twice
InitialTagLists ==
  {t \in UNION {[1..n -> TagPool] : n \in 0..MaxInitialTags} :
      \A i, j \in 1..Len(t) : i # j => t[i] # t[j]}

\* ------------------------------------------------------------------------
\* State
\* ------------------------------------------------------------------------

VARIABLES
  hostTags,        \* the host: the tags of the repository, in the order listTags returns them
  hostTagObjects,  \* the host: the annotated tag objects created
  rawInputs,       \* the with: inputs of the step
  environ,         \* per invocation: process.env
  pubspecFile,     \* per invocation: the file at the manifest path
  pc,              \* per invocation: the remote call it is suspended before, or "start", "done"
  inputs,          \* per invocation: the inputs as getActionInputs returned them
  version,         \* per invocation: locals of createVersionTag
  existingTags,
  tagName,
  tagMessage,
  tagSha,
  outputs,         \* per invocation: core.setOutput, <<>> while unset
  failed,          \* per invocation: core.setFailed, <<>> or <<message>>
  log,             \* per invocation: core.debug / info / warning lines
  calls,           \* per invocation: the remote calls issued, in order
  finishedBefore   \* per invocation: the invocations that had ended when it started

vars ==
  <<hostTags, hostTagObjects, rawInputs, environ, pubspecFile, pc, inputs, version,
    existingTags, tagName, tagMessage, tagSha, outputs, failed, log, calls, finishedBefore>>

hostVars == <<hostTags, hostTagObjects>>

localVars == <<inputs, version, existingTags, tagName, tagMessage, tagSha>>

\* the inputs of an invocation that has not read them
NotRead ==
  [packageRoot |-> Empty, tagPrefix |-> Empty, tagSuffix |-> Empty, tagMessage |-> Empty,
   changelogStructure |-> Empty]

Init ==
  /\ hostTags \in InitialTagLists
  /\ hostTagObjects = {}
  /\ rawInputs \in InputCases
  /\ \E sc \in [Invocations -> Scenarios] :
        /\ environ = [p \in Invocations |-> sc[p].env]
        /\ pubspecFile = [p \in Invocations |-> sc[p].file]
  /\ pc = [p \in Invocations |-> "start"]
  /\ inputs = [p \in Invocations |-> NotRead]
  /\ version = [p \in Invocations |-> Empty]
  /\ existingTags = [p \in Invocations |-> <<>>]
  /\ tagName = [p \in Invocations |-> Empty]
  /\ tagMessage = [p \in Invocations |-> Empty]
  /\ tagSha = [p \in Invocations |-> Empty]
  /\ outputs = [p \in Invocations |-> [k \in OutputKeys \cup {"version"} |-> <<>>]]
  /\ failed = [p \in Invocations |-> <<>>]
  /\ log = [p \in Invocations |-> <<>>]
  /\ calls = [p \in Invocations |-> <<>>]
  /\ finishedBefore = [p \in Invocations |-> {}]

\* ------------------------------------------------------------------------
\* The host
\* ------------------------------------------------------------------------

\* the first page of the tag list
listTagsPage(tags) == SubSeq(tags, 1, IF Len(tags) < PerPage THEN Len(tags) ELSE PerPage)

\* the id the host gives the n-th tag object it creates
TagObjectSha(n) == <<"t", <<"1", "2", "3", "4", "5", "6", "7", "8", "9">>[n]>>

\* the url of a reference
RefUrl(ref) == <<"u", "r", "l", ":">> \o ref

\* the tag list with one more tag at position i
InsertAt(tags, i, t) == SubSeq(tags, 1, i - 1) \o <<t>> \o SubSeq(tags, i, Len(tags))

\* ------------------------------------------------------------------------
\* Operations
\* ------------------------------------------------------------------------

Line(level, text, data) == [level |-> level, text |-> text, data |-> data]

\* the catch block of run, were it to leave the outputs as they are
runCatch_NoReset(p, message, lines) ==
  /\ failed' = [failed EXCEPT ![p] = <<message>>]
  /\ log' = [log EXCEPT ![p] = @ \o lines \o <<Line("error", message, <<>>)>>]
  /\ pc' = [pc EXCEPT ![p] = "done"]
  /\ UNCHANGED outputs

\* the catch block of run: setFailed(message), then every output emptied
runCatch(p, message, lines) ==
  /\ failed' = [failed EXCEPT ![p] = <<message>>]
  /\ outputs' = [outputs EXCEPT ![p] = setOutput(@, setActionOutputs(<<>>))]
  /\ log' = [log EXCEPT ![p] = @ \o lines \o <<Line("error", message, <<>>)>>]
  /\ pc' = [pc EXCEPT ![p] = "done"]

\* createVersionTag up to the list-tags call: environment, inputs, manifest
Start(p) ==
  /\ pc[p] = "start"
  /\ finishedBefore' = [finishedBefore EXCEPT ![p] = {q \in Invocations : pc[q] = "done"}]
  /\ LET ev == getEnvironmentVariables(environ[p])
         pubspec == loadPubspec(pubspecFile[p])
     IN IF ~ev.ok THEN
             /\ runCatch(p, ev.error, <<>>)
             /\ UNCHANGED <<inputs, version>>
        ELSE IF ~pubspec.ok THEN
             /\ runCatch(p, pubspec.error, <<>>)
             /\ inputs' = [inputs EXCEPT ![p] = getActionInputs(rawInputs)]
             /\ UNCHANGED version
        ELSE /\ inputs' = [inputs EXCEPT ![p] = getActionInputs(rawInputs)]
             /\ version' = [version EXCEPT ![p] = pubspec.version]
             /\ outputs' = [outputs EXCEPT ![p] = setOutput(@, [version |-> pubspec.version])]
             /\ log' = [log EXCEPT ![p] =
                          @ \o <<Line("info", "Detected version: ", <<pubspec.version>>)>>]
             /\ pc' = [pc EXCEPT ![p] = "listTags"]
             /\ UNCHANGED failed
  /\ UNCHANGED <<hostVars, rawInputs, environ, pubspecFile, existingTags, tagName,
                 tagMessage, tagSha, calls>>

\* fetchExistingTags, were it to let the error of the call through
fetchExistingTags_Rethrows(response) ==
  [threw |-> ~response.ok, tags |-> response.data, lines |-> <<>>]

\* fetchExistingTags: the tags of the response, or no tags and a debug line
\* when the call failed; it never throws
fetchExistingTags(response) ==
  [threw |-> FALSE,
   tags |-> IF response.ok THEN response.data ELSE <<>>,
   lines |-> IF response.ok THEN <<>> ELSE <<Line("debug", "No tags found: ", <<>>)>>]

\* fetchExistingTags, the existence check, and getTagMessage up to the
\* comparison; an error thrown on the way would reach the catch of run
ListTags(p) ==
  /\ pc[p] = "listTags"
  /\ \E ok \in BOOLEAN :
       LET response == [ok |-> ok, data |-> IF ok THEN listTagsPage(hostTags) ELSE <<>>]
           fetched == fetchExistingTags(response)
           tags == fetched.tags
           name == candidateName(inputs[p], version[p])
           msg == getTagMessage(inputs[p].tagMessage, tags, version[p])
       IN /\ calls' = [calls EXCEPT ![p] =
                        Append(@, [op |-> "listTags", per_page |-> PerPage, ok |-> ok])]
          /\ IF fetched.threw THEN
                  /\ runCatch(p, "listTags rejected", fetched.lines)
                  /\ UNCHANGED <<existingTags, tagName, tagMessage>>
             ELSE IF tagExists(tags, name) THEN
                  /\ existingTags' = [existingTags EXCEPT ![p] = tags]
                  /\ tagName' = [tagName EXCEPT ![p] = name]
                  /\ log' = [log EXCEPT ![p] =
                        @ \o fetched.lines \o <<Line("warning", "already exists", <<name>>)>>]
                  /\ outputs' = [outputs EXCEPT ![p] =
                                   setOutput(@, setActionOutputs([tagname |-> Empty]))]
                  /\ pc' = [pc EXCEPT ![p] = "done"]
                  /\ UNCHANGED <<tagMessage, failed>>
             ELSE /\ existingTags' = [existingTags EXCEPT ![p] = tags]
                  /\ tagName' = [tagName EXCEPT ![p] = name]
                  /\ log' = [log EXCEPT ![p] = @ \o fetched.lines]
                  /\ tagMessage' = [tagMessage EXCEPT ![p] = msg.message]
                  /\ pc' = [pc EXCEPT ![p] =
                              IF msg.decided THEN "createTag" ELSE "compareCommits"]
                  /\ UNCHANGED <<outputs, failed>>
  /\ UNCHANGED <<hostVars, rawInputs, environ, pubspecFile, inputs, version, tagSha,
                 finishedBefore>>

\* generateChangelog from the first listed tag to main, and the rest of
\* getTagMessage: a failed comparison is a warning, not a failure
CompareCommits(p) ==
  /\ pc[p] = "compareCommits"
  /\ \E ok \in BOOLEAN, commits \in CommitLists :
       /\ ~ok => commits = <<>>
       /\ calls' = [calls EXCEPT ![p] =
             Append(@, [op |-> "compareCommits", base |-> existingTags[p][1].name,
                        head |-> HeadRef, ok |-> ok, returned |-> commits])]
       /\ tagMessage' = [tagMessage EXCEPT ![p] =
             changelogMessage([ok |-> ok, commits |-> commits],
                              inputs[p].changelogStructure, version[p])]
       /\ log' = [log EXCEPT ![p] =
             IF ok THEN @
             ELSE Append(@, Line("warning", "Failed to generate changelog: ", <<>>))]
  /\ pc' = [pc EXCEPT ![p] = "createTag"]
  /\ UNCHANGED <<hostVars, rawInputs, environ, pubspecFile, inputs, version, existingTags,
                 tagName, tagSha, outputs, failed, finishedBefore>>

\* the request of createGitTag
createTagRequest(p) ==
  [op |-> "createTag", tag |-> tagName[p], message |-> tagMessage[p],
   object |-> getEnvironmentVariables(environ[p]).sha, type |-> "commit"]

\* createGitTag: the host stores the tag object and returns its sha, or
\* rejects the call and run catches the error
CreateTag(p) ==
  /\ pc[p] = "createTag"
  /\ LET req == createTagRequest(p) IN
     \/ LET sha == TagObjectSha(Cardinality(hostTagObjects) + 1) IN
          /\ calls' = [calls EXCEPT ![p] =
                         Append(@, req @@ [ok |-> TRUE, returned |-> sha])]
          /\ hostTagObjects' = hostTagObjects \cup
                {[sha |-> sha, tag |-> req.tag, message |-> req.message,
                  object |-> req.object]}
          /\ tagSha' = [tagSha EXCEPT ![p] = sha]
          /\ log' = [log EXCEPT ![p] =
                       Append(@, Line("info", "Created tag object: ", <<req.tag>>))]
          /\ pc' = [pc EXCEPT ![p] = "createRef"]
          /\ UNCHANGED <<outputs, failed>>
     \/ /\ calls' = [calls EXCEPT ![p] =
                        Append(@, req @@ [ok |-> FALSE, returned |-> Empty])]
        /\ runCatch(p, "createTag rejected", <<>>)
        /\ UNCHANGED <<hostTagObjects, tagSha>>
  /\ UNCHANGED <<hostTags, rawInputs, environ, pubspecFile, inputs, version, existingTags,
                 tagName, tagMessage, finishedBefore>>

\* the ref of createGitReference, were it the bare tag name
refName_Bare(name) == name

\* the ref of createGitReference
refName(name) == RefsTags \o name

\* the request of createGitReference
createRefRequest(p) == [op |-> "createRef", ref |-> refName(tagName[p]), sha |-> tagSha[p]]

\* the host has a reference of that name
hostHasRef(ref) == \E i \in 1..Len(hostTags) : RefsTags \o hostTags[i].name = ref

\* createGitReference and the outputs of a completed creation: the host
\* refuses a reference name it already has, and may reject the call
CreateRef(p) ==
  /\ pc[p] = "createRef"
  /\ LET req == createRefRequest(p) IN
     \/ /\ ~hostHasRef(req.ref)
        /\ \E i \in 1..(Len(hostTags) + 1) :
              hostTags' = InsertAt(hostTags, i, [name |-> Drop(req.ref, Len(RefsTags))])
        /\ calls' = [calls EXCEPT ![p] =
              Append(@, req @@ [ok |-> TRUE,
                                returned |-> [ref |-> req.ref, url |-> RefUrl(req.ref)]])]
        /\ outputs' = [outputs EXCEPT ![p] =
              setOutput(@, setActionOutputs(
                [tagname |-> tagName[p], tagsha |-> tagSha[p], taguri |-> RefUrl(req.ref),
                 tagmessage |-> tagMessage[p], tagref |-> req.ref]))]
        /\ log' = [log EXCEPT ![p] =
              @ \o <<Line("info", "Created reference: ", <<req.ref, RefUrl(req.ref)>>),
                     Line("info", "Successfully created tag: ", <<tagName[p]>>)>>]
        /\ pc' = [pc EXCEPT ![p] = "done"]
        /\ UNCHANGED failed
     \/ /\ hostHasRef(req.ref)
        /\ calls' = [calls EXCEPT ![p] = Append(@, req @@ [ok |-> FALSE])]
        /\ runCatch(p, "Reference already exists", <<>>)
        /\ UNCHANGED hostTags
     \/ /\ calls' = [calls EXCEPT ![p] = Append(@, req @@ [ok |-> FALSE])]
        /\ runCatch(p, "createRef rejected", <<>>)
        /\ UNCHANGED hostTags
  /\ UNCHANGED <<hostTagObjects, rawInputs, environ, pubspecFile, localVars, finishedBefore>>

Next == \E p \in Invocations :
  Start(p) \/ ListTags(p) \/ CompareCommits(p) \/ CreateTag(p) \/ CreateRef(p)

Spec == Init /\ [][Next]_vars

\* ------------------------------------------------------------------------
\* Properties
\* ------------------------------------------------------------------------

Issued(p, op) == \E i \in 1..Len(calls[p]) : calls[p][i].op = op

NumIssued(p, op) == Cardinality({i \in 1..Len(calls[p]) : calls[p][i].op = op})

\* tag_prefix + version + tag_suffix
Candidate(p) == inputs[p].tagPrefix \o version[p] \o inputs[p].tagSuffix

\* the candidate name is the name of a tag of the fetched list
CandidateListed(p) ==
  \E i \in 1..Len(existingTags[p]) : existingTags[p][i].name = Candidate(p)

AllOutputsSet(p) == \A k \in OutputKeys : outputs[p][k] # <<>>

AllOutputsEmpty(p) == \A k \in OutputKeys : outputs[p][k] = <<Empty>>

\* the five outputs are the values of a creation the invocation completed
OutputsOfCreation(p) ==
  \E i, j \in 1..Len(calls[p]) :
    /\ i < j
    /\ calls[p][i].op = "createTag" /\ calls[p][i].ok
    /\ calls[p][j].op = "createRef" /\ calls[p][j].ok
    /\ outputs[p].tagname = <<Candidate(p)>>
    /\ outputs[p].tagsha = <<calls[p][i].returned>>
    /\ outputs[p].tagref = <<calls[p][j].returned.ref>>
    /\ outputs[p].taguri = <<calls[p][j].returned.url>>
    /\ outputs[p].tagmessage = <<calls[p][i].message>>

\* C1: an invocation whose candidate tag name is the name of a tag of the
\* list it fetched issues no create-tag and no create-reference call, is not
\* marked failed, and ends with the tagname output set to the empty string.
C1_ExistingTagIsNoOp ==
  \A p \in Invocations :
    (Issued(p, "listTags") /\ CandidateListed(p)) =>
      /\ pc[p] = "done"
      /\ ~Issued(p, "createTag")
      /\ ~Issued(p, "createRef")
      /\ failed[p] = <<>>
      /\ outputs[p].tagname = <<Empty>>

\* an invocation has ended on a fetched list that holds its candidate name,
\* and the list holds another tag before it
C1_Witness ==
  \E p \in Invocations :
    /\ pc[p] = "done"
    /\ Issued(p, "listTags")
    /\ CandidateListed(p)
    /\ existingTags[p][1].name # Candidate(p)

ConfigurationMissing(p) ==
  \/ environ[p].GITHUB_TOKEN = Empty /\ environ[p].INPUT_GITHUB_TOKEN = Empty
  \/ environ[p].GITHUB_WORKSPACE = Empty
  \/ environ[p].GITHUB_SHA = Empty
  \/ pubspecFile[p].kind \in {"absent", "scalar", "noVersion", "nonString"}
  \/ pubspecFile[p].kind = "string" /\ pubspecFile[p].version = Empty

OrphanedAt(p, i, j) ==
  /\ i < j
  /\ calls[p][i].op = "createTag" /\ calls[p][i].ok
  /\ calls[p][j].op = "createRef" /\ ~calls[p][j].ok

\* a line of the log, or the failure, carries the value
Reported(p, value) ==
  \E n \in 1..Len(log[p]) : \E m \in 1..Len(log[p][n].data) : log[p][n].data[m] = value

\* C4: when create-tag succeeded and the create-reference call after it
\* failed, the invocation ends marked failed, no call follows the failed one
\* (the tag object stays on the host), and the diagnostic of the invocation
\* carries the sha of the orphaned tag object.
C4_OrphanIsReported ==
  \A p \in Invocations : \A i, j \in 1..Len(calls[p]) :
    OrphanedAt(p, i, j) =>
      /\ pc[p] = "done"
      /\ failed[p] # <<>>
      /\ j = Len(calls[p])
      /\ \E o \in hostTagObjects : o.sha = calls[p][i].returned
      /\ Reported(p, calls[p][i].returned)

\* q started when every other invocation had ended, one of them p, which
\* did not fail and read the same version
RanAfter(q, p) ==
  /\ p # q
  /\ pc[q] = "done"
  /\ finishedBefore[q] = Invocations \ {q}
  /\ failed[p] = <<>>
  /\ version[q] # Empty
  /\ version[p] = version[q]

\* the invocation took the short-circuit and changed nothing
NoOp(q) ==
  /\ CandidateListed(q)
  /\ ~Issued(q, "createTag")
  /\ ~Issued(q, "createRef")
  /\ outputs[q].tagname = <<Empty>>
  /\ failed[q] = <<>>

HostMessages == {"createTag rejected", "Reference already exists", "createRef rejected"}

\* the invocation ended with a tag of its own
Succeeded(p) ==
  pc[p] = "done" /\ failed[p] = <<>> /\ outputs[p].tagname \notin {<<>>, <<Empty>>}

\* the host rejected a creation call of the invocation
CreationRejected(p) ==
  \E i \in 1..Len(calls[p]) : calls[p][i].op \in {"createTag", "createRef"} /\ ~calls[p][i].ok

\* C6: of two invocations with the same candidate tag name at most one ends
\* with the tag created and tagname set, and one whose creation call the
\* host rejected has ended marked failed with the message of the host and
\* the five outputs empty.
C6_RaceEndsInReportedFailure ==
  \A p, q \in Invocations :
    (p # q /\ tagName[p] # Empty /\ tagName[p] = tagName[q]) =>
      /\ ~(Succeeded(p) /\ Succeeded(q))
      /\ CreationRejected(p) =>
            /\ pc[p] = "done"
            /\ failed[p] \in {<<m>> : m \in HostMessages}
            /\ AllOutputsEmpty(p)

\* two interleaved invocations both passed the existence check and both
\* created a tag object; the host kept the reference of one and refused the
\* reference of the other
C6_Witness ==
  \E p, q \in Invocations :
    /\ p # q /\ tagName[p] = tagName[q]
    /\ p \notin finishedBefore[q] /\ q \notin finishedBefore[p]
    /\ Issued(p, "createRef") /\ Issued(q, "createRef")
    /\ calls[p][1].ok /\ calls[q][1].ok
    /\ Succeeded(p)
    /\ pc[q] = "done" /\ failed[q] = <<"Reference already exists">>

\* C7: the message of every create-tag call is a non-empty string.
C7_TagMessageNeverEmpty ==
  \A p \in Invocations : \A i \in 1..Len(calls[p]) :
    calls[p][i].op = "createTag" => calls[p][i].message # Empty

\* a comparison returned commits whose formatted text is empty, and the
\* create-tag call after it carried the fallback message
C7_Witness ==
  \E p \in Invocations : \E i, j \in 1..Len(calls[p]) :
    /\ i < j
    /\ calls[p][i].op = "compareCommits" /\ calls[p][i].ok
    /\ calls[p][i].returned # <<>>
    /\ generateChangelog(calls[p][i].returned, inputs[p].changelogStructure) = Empty
    /\ calls[p][j].op = "createTag"
    /\ calls[p][j].message = VersionWord \o version[p]

RECURSIVE WithoutBuild(_)
WithoutBuild(v) ==
  IF v = Empty \/ v[1] = "+" THEN Empty ELSE <<v[1]>> \o WithoutBuild(Drop(v, 1))

\* C9: the tag of every create-tag call is tag_prefix, the version without
\* its build number, and tag_suffix, and that name is the one looked up in
\* the fetched list.
C9_BuildNumberIgnored ==
  \A p \in Invocations : \A i \in 1..Len(calls[p]) :
    calls[p][i].op = "createTag" =>
      /\ calls[p][i].tag =
           inputs[p].tagPrefix \o WithoutBuild(version[p]) \o inputs[p].tagSuffix
      /\ calls[p][i].tag = tagName[p]

\* C10: an invocation issues at most one create-tag and at most one
\* create-reference call; a create-reference call comes after a create-tag
\* call that succeeded, names refs/tags/ and the candidate name, and points
\* at the sha that call returned; after a failed create-tag call there is no
\* create-reference call and the invocation has ended marked failed.
C10_TagThenReference ==
  \A p \in Invocations :
    /\ NumIssued(p, "createTag") <= 1
    /\ NumIssued(p, "createRef") <= 1
    /\ \A j \in 1..Len(calls[p]) :
          calls[p][j].op = "createRef" =>
            /\ \E i \in 1..(j - 1) :
                  /\ calls[p][i].op = "createTag" /\ calls[p][i].ok
                  /\ calls[p][j].sha = calls[p][i].returned
            /\ calls[p][j].ref = RefsTags \o Candidate(p)
    /\ \A i \in 1..Len(calls[p]) :
          (calls[p][i].op = "createTag" /\ ~calls[p][i].ok) =>
            /\ ~Issued(p, "createRef")
            /\ pc[p] = "done"
            /\ failed[p] # <<>>

\* one invocation has issued both calls, another has ended on a rejected
\* create-tag call
C10_Witness ==
  \E p, q \in Invocations :
    /\ Issued(p, "createRef")
    /\ \E i \in 1..Len(calls[q]) : calls[q][i].op = "createTag" /\ ~calls[q][i].ok

\* the explicit message, as createVersionTag hands it to getTagMessage: the
\* tag_message input, which getActionInputs trims when it reads it
ExplicitMessage(p) == inputs[p].tagMessage

\* the invocation has a tag message: it is at or past the create-tag call
MessageResolved(p) == pc[p] \in {"createTag", "createRef"} \/ Issued(p, "createTag")

\* C11: a comparison call is issued only when the explicit message is empty
\* after trimming, the fetched tag list is not empty and the candidate name
\* is not in it; with an explicit message the tag message is that message
\* and there is no comparison call; with no explicit message and an empty
\* tag list the message is "Version " and the version, with no comparison
\* call.
C11_ComparisonOnlyWithoutMessage ==
  \A p \in Invocations :
    /\ Issued(p, "compareCommits") =>
          /\ Trim(rawInputs.tag_message) = Empty
          /\ existingTags[p] # <<>>
          /\ ~CandidateListed(p)
    /\ (MessageResolved(p) /\ ExplicitMessage(p) # Empty) =>
          /\ tagMessage[p] = ExplicitMessage(p)
          /\ ~Issued(p, "compareCommits")
          /\ \A i \in 1..Len(calls[p]) :
                calls[p][i].op = "createTag" => calls[p][i].message = ExplicitMessage(p)
    /\ (MessageResolved(p) /\ ExplicitMessage(p) = Empty /\ existingTags[p] = <<>>) =>
          /\ tagMessage[p] = VersionWord \o version[p]
          /\ ~Issued(p, "compareCommits")
          /\ \A i \in 1..Len(calls[p]) :
                calls[p][i].op = "createTag" => calls[p][i].message = VersionWord \o version[p]

\* an invocation with an explicit message has fetched a tag list that is
\* not empty and has issued the create-tag call
C11_Witness ==
  \E p \in Invocations :
    /\ ExplicitMessage(p) # Empty
    /\ existingTags[p] # <<>>
    /\ Issued(p, "createTag")

\* the list-tags call of the invocation failed
ListFailed(p) == calls[p] # <<>> /\ calls[p][1].op = "listTags" /\ ~calls[p][1].ok

\* the explicit message or, when none is given, "Version " and the version
MessageWithoutTags(p) ==
  IF ExplicitMessage(p) # Empty THEN ExplicitMessage(p) ELSE VersionWord \o version[p]

\* C12: an invocation whose list-tags call failed is not marked failed by
\* it and goes on as with no tags: its tag list is empty, it does not take
\* the short-circuit, it issues no comparison call, and its next call is a
\* create-tag call for the candidate name with the explicit message or
\* "Version " and the version.
C12_FailedListIsNoTags ==
  \A p \in Invocations :
    ListFailed(p) =>
      /\ existingTags[p] = <<>>
      /\ ~Issued(p, "compareCommits")
      /\ outputs[p].tagname # <<Empty>> \/ failed[p] # <<>>
      /\ failed[p] # <<>> => CreationRejected(p)
      /\ IF Len(calls[p]) = 1
           THEN /\ pc[p] = "createTag"
                /\ failed[p] = <<>>
                /\ tagName[p] = Candidate(p)
                /\ tagMessage[p] = MessageWithoutTags(p)
           ELSE /\ calls[p][2].op = "createTag"
                /\ calls[p][2].tag = Candidate(p)
                /\ calls[p][2].message = MessageWithoutTags(p)

\* an invocation whose list-tags call failed has created a tag object for a
\* name the repository had from the start, and the host has refused the
\* reference
C12_Witness ==
  \E p \in Invocations :
    /\ ListFailed(p)
    /\ Len(calls[p]) = 3
    /\ calls[p][2].ok
    /\ failed[p] = <<"Reference already exists">>
    /\ \A q \in Invocations : ~(Issued(q, "createRef") /\ Succeeded(q))

====
